---------------------------- MODULE Spec2Model ----------------------------
(***************************************************************************)
(* Model of BlackHole.cpp: the light-ray integrator (LightRay::update),    *)
(* the ray collection of BlackHoleSimulation (spawn, update, cull, reset)  *)
(* and the frame loop (run: handleEvents, update, render).                 *)
(*                                                                         *)
(* Every `float` of the source is an IEEE-754 binary32 value, modelled     *)
(* bit-exactly as a record [s, e, m]:                                      *)
(*    s  sign (0 or 1)                                                     *)
(*    e  exponent, -126..127 for finite values, 128 for Inf and NaN        *)
(*    m  24-bit significand; value = (-1)^s * m * 2^(e-23)                 *)
(*       m >= 2^23 for normal values, m < 2^23 (with e = -126) for         *)
(*       subnormals and zero; for e = 128, m = 0 is Inf and m # 0 is NaN.  *)
(* Every operation rounds to nearest, ties to even, as the hardware does.  *)
(***************************************************************************)
EXTENDS Integers, Sequences, FiniteSets, TLC

-----------------------------------------------------------------------------
(* binary32 arithmetic *)

\* The element of a one-element set. An operator below that uses a computed value
\* more than once binds it as { body : v \in {value} } and takes the element, so
\* that the value is computed once.
The(S) == CHOOSE r \in S : TRUE

Pow2(n) == 2 ^ n

IsOdd(n) == n % 2 = 1

\* Number of bits of n >= 0 (0 for n = 0).
BitLen4(n) == IF n < 4 THEN (IF n < 2 THEN n ELSE 2) ELSE (IF n < 8 THEN 3 ELSE 4)
BitLen8(n) == IF n < 16 THEN BitLen4(n) ELSE 4 + BitLen4(n \div 16)
BitLen16(n) == IF n < 256 THEN BitLen8(n) ELSE 8 + BitLen8(n \div 256)
BitLen(n) == IF n < 65536 THEN BitLen16(n) ELSE 16 + BitLen16(n \div 65536)

\* n with its last bit set if inexact holds (the sticky bit): a later rounding
\* then sees that bits were lost.
Jam(n, inexact) == IF inexact /\ ~IsOdd(n) THEN n + 1 ELSE n

\* n shifted right by k bits, the bits shifted out kept as a sticky bit.
ShiftRightJam(n, k) ==
    IF k <= 0 THEN n
    ELSE IF k >= 31 THEN (IF n # 0 THEN 1 ELSE 0)
    ELSE Jam(n \div Pow2(k), n % Pow2(k) # 0)

FZero(s) == [s |-> s, e |-> -126, m |-> 0]
FInf(s)  == [s |-> s, e |-> 128, m |-> 0]
FNaN     == [s |-> 0, e |-> 128, m |-> 1]

IsNaN(x)    == x.e = 128 /\ x.m # 0
IsInf(x)    == x.e = 128 /\ x.m = 0
IsZero(x)   == x.e # 128 /\ x.m = 0
IsFinite(x) == x.e # 128

\* Round to nearest, ties to even: sub is a significand with three extra bits
\* (its leading bit at bit 26 unless subnormal) and exponent e1.
RoundFinal(s, e1, sub) ==
    LET q  == sub \div 8
        r  == sub % 8
        q1 == IF r > 4 \/ (r = 4 /\ IsOdd(q)) THEN q + 1 ELSE q
        e2 == IF q1 = Pow2(24) THEN e1 + 1 ELSE e1
        m2 == IF q1 = Pow2(24) THEN Pow2(23) ELSE q1
    IN  IF e2 > 127 THEN FInf(s) ELSE [s |-> s, e |-> e2, m |-> m2]

\* sig (of bl bits) with its leading bit moved to bit 26.
Norm27(sig, bl) == IF bl > 27 THEN ShiftRightJam(sig, bl - 27) ELSE sig * Pow2(27 - bl)

\* e0 is the exponent of the leading bit of n27; below -126 the value is subnormal.
RoundNorm(s, e0, n27) ==
    IF e0 < -126 THEN RoundFinal(s, -126, ShiftRightJam(n27, -126 - e0))
    ELSE RoundFinal(s, e0, n27)

\* The binary32 nearest to (-1)^s * sig * 2^x, where sig > 0 may carry a sticky bit.
RoundPack(s, x, sig) ==
    The({ The({ RoundNorm(s, x + bl - 1, Norm27(v, bl)) : bl \in { BitLen(v) } })
          : v \in { sig } })

\* int -> float conversion (exact for |n| < 2^24, rounded above).
F(n) == IF n = 0 THEN FZero(0)
        ELSE IF n < 0 THEN RoundPack(1, 0, -n) ELSE RoundPack(0, 0, n)

FNeg(x) == The({ [v EXCEPT !.s = 1 - v.s] : v \in { x } })

\* std::abs(float)
FAbs(x) == [x EXCEPT !.s = 0]

\* |x| < |y| for finite x, y
MagLess(x, y) == x.e < y.e \/ (x.e = y.e /\ x.m < y.m)

LtValues(x, y) ==
    IF IsNaN(x) \/ IsNaN(y) THEN FALSE
    ELSE IF x.m = 0 /\ y.m = 0 /\ x.e # 128 /\ y.e # 128 THEN FALSE
    ELSE IF x.s # y.s THEN x.s = 1
    ELSE IF x.s = 0 THEN MagLess(x, y) ELSE MagLess(y, x)

\* x < y
FLt(x, y) == The({ LtValues(t[1], t[2]) : t \in { << x, y >> } })

\* x > y
FGt(x, y) == FLt(y, x)

\* big + small for finite non-zero values with |big| >= |small|
AddOrdered(big, small) ==
    The({ IF big.s = small.s THEN RoundPack(big.s, big.e - 26, big.m * 8 + s3)
          ELSE IF big.m * 8 = s3 THEN FZero(0)
          ELSE RoundPack(big.s, big.e - 26, big.m * 8 - s3)
          : s3 \in { ShiftRightJam(small.m * 8, big.e - small.e) } })

AddValues(x, y) ==
    IF IsNaN(x) \/ IsNaN(y) THEN FNaN
    ELSE IF IsInf(x) THEN (IF IsInf(y) /\ y.s # x.s THEN FNaN ELSE x)
    ELSE IF IsInf(y) THEN y
    ELSE IF x.m = 0 /\ y.m = 0 THEN (IF x.s = y.s THEN x ELSE FZero(0))
    ELSE IF x.m = 0 THEN y
    ELSE IF y.m = 0 THEN x
    ELSE IF MagLess(x, y) THEN AddOrdered(y, x) ELSE AddOrdered(x, y)

\* x + y
FAdd(x, y) == The({ AddValues(t[1], t[2]) : t \in { << x, y >> } })

\* x - y
FSub(x, y) == FAdd(x, FNeg(y))

\* A finite non-zero value's significand with its leading bit at bit 23, and the
\* exponent that goes with it (a subnormal's exponent drops below -126).
NormM(x) == x.m * Pow2(24 - BitLen(x.m))
NormE(x) == x.e - (24 - BitLen(x.m))

\* The 48-bit product a * b of two 24-bit significands, as its top 27 bits with
\* the rest kept as a sticky bit: p = << a1*b1, a1*b0 + a0*b1, a0*b0 >> are the
\* partial products of the 12-bit halves.
MulTop(p) ==
    LET mid == p[2] + (p[3] \div 4096)
        hi  == p[1] + (mid \div 4096)
        \* a * b = hi * 2^24 + (mid % 4096) * 2^12 + (p[3] % 4096)
    IN  Jam(hi * 8 + ((mid % 4096) \div 512),
            ((mid % 4096) % 512 # 0) \/ (p[3] % 4096 # 0))

MulSig(a, b) ==
    The({ MulTop(p) : p \in { << (a \div 4096) * (b \div 4096),
                                 (a \div 4096) * (b % 4096) + (a % 4096) * (b \div 4096),
                                 (a % 4096) * (b % 4096) >> } })

MulValues(x, y, s) ==
    IF IsNaN(x) \/ IsNaN(y) THEN FNaN
    ELSE IF IsInf(x) \/ IsInf(y)
         THEN (IF IsZero(x) \/ IsZero(y) THEN FNaN ELSE FInf(s))
    ELSE IF x.m = 0 \/ y.m = 0 THEN FZero(s)
    ELSE The({ RoundPack(s, NormE(x) + NormE(y) - 46 + 21, MulSig(n[1], n[2]))
               : n \in { << NormM(x), NormM(y) >> } })

\* x * y
FMul(x, y) ==
    The({ MulValues(t[1], t[2], IF t[1].s = t[2].s THEN 0 ELSE 1) : t \in { << x, y >> } })

\* One step of the long division by d: 7 more quotient bits.
DivStep(qr, d) ==
    The({ << v[1] * 128 + ((v[2] * 128) \div d), (v[2] * 128) % d >> : v \in { qr } })

\* << floor(a * 2^28 / b), remainder >> for 24-bit significands a, b
DivSig(a, b) ==
    DivStep(DivStep(DivStep(DivStep(<< a \div b, a % b >>, b), b), b), b)

DivValues(x, y, s) ==
    IF IsNaN(x) \/ IsNaN(y) THEN FNaN
    ELSE IF IsInf(x) THEN (IF IsInf(y) THEN FNaN ELSE FInf(s))
    ELSE IF IsInf(y) THEN FZero(s)
    ELSE IF y.m = 0 THEN (IF x.m = 0 THEN FNaN ELSE FInf(s))
    ELSE IF x.m = 0 THEN FZero(s)
    ELSE The({ The({ RoundPack(s, NormE(x) - NormE(y) - 28, Jam(q[1], q[2] # 0))
                     : q \in { DivSig(n[1], n[2]) } })
               : n \in { << NormM(x), NormM(y) >> } })

\* x / y
FDiv(x, y) ==
    The({ DivValues(t[1], t[2], IF t[1].s = t[2].s THEN 0 ELSE 1) : t \in { << x, y >> } })

\* floor(sqrt(n)) for 2^23 <= n < 2^25 by Newton's iteration from r >= sqrt(n).
RECURSIVE Newton(_, _)
Newton(n, r) ==
    The({ IF t >= r THEN r ELSE Newton(n, t) : t \in { (r + n \div r) \div 2 } })

\* One radix-128 step of the digit-by-digit square root, on seven pairs of zero
\* bits: from rr = <<root, rem>> with n = root^2 + rem and rem <= 2 * root to the
\* same for n * 2^14. The digit d is floor(64 * rem / root) or one less.
SqrtDigit(root, rem, d) ==
    IF (rem * 64 - root * d) * 256 - d * d >= 0
    THEN << root * 128 + d, (rem * 64 - root * d) * 256 - d * d >>
    ELSE << root * 128 + d - 1,
            (rem * 64 - root * d + root) * 256 - (d - 1) * (d - 1) >>

SqrtStep(rr) ==
    The({ The({ SqrtDigit(v[1], v[2], IF est > 127 THEN 127 ELSE est)
                : est \in { (v[2] * 64) \div v[1] } })
          : v \in { rr } })

\* << floor(sqrt(a2 * 2^28)), remainder >> for 2^23 <= a2 < 2^25
SqrtSig(a2) ==
    The({ SqrtStep(SqrtStep(<< r0, a2 - r0 * r0 >>)) : r0 \in { Newton(a2, 8192) } })

\* sqrt of a * 2^ex, a a 24-bit significand
SqrtValues(a, ex) ==
    The({ RoundPack(0, ((IF ex % 2 = 0 THEN ex ELSE ex - 1) \div 2) - 14,
                    Jam(rr[1], rr[2] # 0))
          : rr \in { SqrtSig(IF ex % 2 = 0 THEN a ELSE a * 2) } })

\* std::sqrt(float)
FSqrt(x) ==
    The({ IF IsNaN(v) THEN FNaN
          ELSE IF v.e # 128 /\ v.m = 0 THEN v
          ELSE IF v.s = 1 THEN FNaN
          ELSE IF IsInf(v) THEN v
          ELSE SqrtValues(NormM(v), NormE(v) - 23)
          : v \in { x } })

-----------------------------------------------------------------------------
(* constants of the program *)

WINDOW_WIDTH == 1200
WINDOW_HEIGHT == 800

\* The palette of spawnLightRay, in its order.
colors == << "Red", "Green", "Blue", "Yellow", "Magenta", "Cyan", "White" >>

\* The events handleEvents tells apart; "Other" is any other key press.
Events == { "Closed", "Escape", "R", "Other" }

-----------------------------------------------------------------------------
(* bounds of the model *)

\* Events delivered to one handleEvents call.
MaxEvents == 2
\* Update is run while rayCount is below this (specification Spec).
MaxSpawn == 9
\* The same for specification SpecLag.
MaxLagSpawn == 16
\* A single ray is followed until its path holds this many points (SpecRay).
MaxPath == 4

-----------------------------------------------------------------------------
(* struct Vector2f *)

Vector2f(x, y) == [x |-> x, y |-> y]

\* operator+
VecAdd(a, b) ==
    The({ Vector2f(FAdd(t[1].x, t[2].x), FAdd(t[1].y, t[2].y)) : t \in { << a, b >> } })

\* operator-
VecSub(a, b) ==
    The({ Vector2f(FSub(t[1].x, t[2].x), FSub(t[1].y, t[2].y)) : t \in { << a, b >> } })

\* operator*(float scalar)
VecScale(a, scalar) ==
    The({ Vector2f(FMul(t[1].x, t[2]), FMul(t[1].y, t[2])) : t \in { << a, scalar >> } })

magnitude(a) ==
    The({ FSqrt(FAdd(FMul(v.x, v.x), FMul(v.y, v.y))) : v \in { a } })

\* a / mag, or the zero vector when mag is not positive
divideBy(a, mag) ==
    IF FGt(mag, F(0)) THEN Vector2f(FDiv(a.x, mag), FDiv(a.y, mag))
    ELSE Vector2f(F(0), F(0))

normalized(a) ==
    The({ The({ divideBy(v, mag) : mag \in { magnitude(v) } }) : v \in { a } })

-----------------------------------------------------------------------------
(* class BlackHole *)

\* BlackHole(pos, m): schwarzschildRadius = mass * 0.01f
BlackHole(pos, m) ==
    [position |-> pos, mass |-> m,
     schwarzschildRadius |-> FMul(m, FDiv(F(1), F(100)))]

-----------------------------------------------------------------------------
(* class LightRay *)

\* LightRay with the impact parameter measured along x instead of y.
LightRayImpactFromX(startPos, initialVel, c) ==
    [path            |-> << startPos >>,
     currentPosition |-> startPos,
     currentVelocity |-> initialVel,
     color           |-> c,
     impactParameter |-> FAbs(FSub(startPos.x, FDiv(F(WINDOW_HEIGHT), F(2)))),
     absorbed        |-> FALSE]

\* LightRay(startPos, initialVel, c)
LightRay(startPos, initialVel, c) ==
    [path            |-> << startPos >>,
     currentPosition |-> startPos,
     currentVelocity |-> initialVel,
     color           |-> c,
     impactParameter |-> FAbs(FSub(startPos.y, FDiv(F(WINDOW_HEIGHT), F(2)))),
     absorbed        |-> FALSE]

\* The locals of LightRay::update, in the order the code computes them.
toBlackHole(ray, bh) == VecSub(bh.position, ray.currentPosition)

distance(ray, bh) == magnitude(toBlackHole(ray, bh))

gravitationalConstant(bh) == FMul(bh.mass, F(10000))

\* The two divisors of the acceleration.
distanceSquared(ray, bh) == The({ FMul(d, d) : d \in { distance(ray, bh) } })

deflectionDivisor(ray, bh) ==
    FAdd(FMul(distance(ray, bh), ray.impactParameter), F(1))

deflectionFactor(ray, bh) ==
    FAdd(F(1), FDiv(FMul(gravitationalConstant(bh), FDiv(F(1), F(1000))),
                    deflectionDivisor(ray, bh)))

acceleration(ray, bh) ==
    VecScale(VecScale(normalized(toBlackHole(ray, bh)),
                      FDiv(gravitationalConstant(bh), distanceSquared(ray, bh))),
             deflectionFactor(ray, bh))

lightSpeed == F(200)

\* currentVelocity + acceleration * deltaTime, before it is renormalised.
acceleratedVelocity(ray, bh, deltaTime) ==
    VecAdd(ray.currentVelocity, VecScale(acceleration(ray, bh), deltaTime))

\* The capture check of update.
captured(ray, bh) == FLt(distance(ray, bh), bh.schwarzschildRadius)

\* The velocity update stores: renormalised to the speed of light.
newVelocity(ray, bh, deltaTime) ==
    VecScale(normalized(acceleratedVelocity(ray, bh, deltaTime)), lightSpeed)

\* path.empty() || (currentPosition - path.back()).magnitude() > 2.0f
movedFar(path, pos) ==
    \/ Len(path) = 0
    \/ FGt(magnitude(VecSub(pos, path[Len(path)])), F(2))

\* The ray moved to pos with velocity vel.
moved(ray, vel, pos) ==
    [ray EXCEPT !.currentVelocity = vel,
                !.currentPosition = pos,
                !.path = IF movedFar(@, pos) THEN Append(@, pos) ELSE @]

\* The part of update after the capture check.
advance(ray, bh, deltaTime) ==
    The({ The({ moved(ray, vel, pos)
                : pos \in { VecAdd(ray.currentPosition, VecScale(vel, deltaTime)) } })
          : vel \in { newVelocity(ray, bh, deltaTime) } })

\* update whose capture branch falls through to the motion instead of returning.
updateAbsorbMoves(ray, bh, deltaTime) ==
    IF ray.absorbed THEN ray
    ELSE IF captured(ray, bh) THEN [advance(ray, bh, deltaTime) EXCEPT !.absorbed = TRUE]
    ELSE advance(ray, bh, deltaTime)

\* update without the capture check.
updateNeverCaptures(ray, bh, deltaTime) ==
    IF ray.absorbed THEN ray ELSE advance(ray, bh, deltaTime)

\* LightRay::update(blackHole, deltaTime)
update(ray, bh, deltaTime) ==
    IF ray.absorbed THEN ray
    ELSE IF captured(ray, bh) THEN [ray EXCEPT !.absorbed = TRUE]
    ELSE advance(ray, bh, deltaTime)

\* isOffScreen without the 100-unit margin.
isOffScreenNoMargin(ray) ==
    /\ \/ FGt(ray.currentPosition.x, F(WINDOW_WIDTH))
       \/ FLt(ray.currentPosition.x, F(0))
       \/ FGt(ray.currentPosition.y, F(WINDOW_HEIGHT))
       \/ FLt(ray.currentPosition.y, F(0))
    /\ ~ray.absorbed

isOffScreen(ray) ==
    /\ \/ FGt(ray.currentPosition.x, F(WINDOW_WIDTH + 100))
       \/ FLt(ray.currentPosition.x, F(-100))
       \/ FGt(ray.currentPosition.y, F(WINDOW_HEIGHT + 100))
       \/ FLt(ray.currentPosition.y, F(-100))
    /\ ~ray.absorbed

-----------------------------------------------------------------------------
(* class BlackHoleSimulation *)

VARIABLES
    blackHole,      \* the BlackHole member
    lightRays,      \* std::vector<LightRay>
    raySpawnTimer,  \* float
    rayCount,       \* int
    windowOpen,     \* window.isOpen()
    pc,             \* where run() stands: "handleEvents", "update", "render", "done"
    spawned,        \* history: the rays as spawnLightRay constructed them since
                    \* rayCount was last 0
    wasReset,       \* history: an R key press has been handled when rayCount was not 0
    lastDeltaTime   \* update()'s local deltaTime, from update() to the end of the frame

vars == << blackHole, lightRays, raySpawnTimer, rayCount, windowOpen, pc, spawned,
           wasReset, lastDeltaTime >>

\* sf::Time::asSeconds of a clock reading of us microseconds
asSeconds(us) == FDiv(F(us), F(1000000))

\* The frame times clock.restart() returns: a frame of exactly the spawn interval,
\* and two stalled frames (3.25 s carries a ray 650 px, 7 s carries it 1400 px).
DeltaTimes == { asSeconds(us) : us \in { 300000, 3250000, 7000000 } }

LagDeltaTimes == { asSeconds(us) : us \in { 3250000, 7000000 } }

\* spawnLightRay with the heights cycling over 16 instead of 15.
newLightRaySixteenHeights(n) ==
    LightRay(Vector2f(F(-50), F(50 + (n % 16) * 50)), Vector2f(F(200), F(0)),
             colors[(n % 7) + 1])

\* The ray spawnLightRay constructs when the counter is n.
newLightRay(n) ==
    LET y        == F(50 + (n % 15) * 50)
        startPos == Vector2f(F(-50), y)
        velocity == Vector2f(F(200), F(0))
        rayColor == colors[(n % 7) + 1]
    IN  LightRay(startPos, velocity, rayColor)

\* The simulation's fields after update() ran with clock reading deltaTime.
timerAfter(deltaTime) == FAdd(raySpawnTimer, deltaTime)

\* The spawn test with >= in place of >.
spawnsOnAtInterval(deltaTime) == ~FLt(timerAfter(deltaTime), FDiv(F(3), F(10)))

spawnsOn(deltaTime) == FGt(timerAfter(deltaTime), FDiv(F(3), F(10)))

cull(rays) == SelectSeq(rays, LAMBDA r : ~isOffScreen(r))

updateAll(rays, deltaTime) ==
    The({ [i \in 1..Len(v) |-> update(v[i], blackHole, deltaTime)] : v \in { rays } })

Init ==
    /\ blackHole = BlackHole(Vector2f(F(WINDOW_WIDTH \div 2), F(WINDOW_HEIGHT \div 2)),
                             F(50))
    /\ lightRays = << >>
    /\ raySpawnTimer = F(0)
    /\ rayCount = 0
    /\ windowOpen = TRUE
    /\ pc = "handleEvents"
    /\ spawned = << >>
    /\ wasReset = FALSE
    /\ lastDeltaTime = F(0)

\* BlackHoleSimulation::update with clock.restart().asSeconds() = deltaTime
Update(deltaTime) ==
    /\ pc = "update"
    /\ \E spawn \in { spawnsOn(deltaTime) } :
           /\ raySpawnTimer' = IF spawn THEN F(0) ELSE timerAfter(deltaTime)
           /\ rayCount' = IF spawn THEN rayCount + 1 ELSE rayCount
           /\ spawned' = IF spawn THEN Append(spawned, newLightRay(rayCount))
                         ELSE spawned
           /\ lightRays' = cull(updateAll(IF spawn
                                          THEN Append(lightRays, newLightRay(rayCount))
                                          ELSE lightRays, deltaTime))
    /\ pc' = "render"
    /\ lastDeltaTime' = deltaTime
    /\ UNCHANGED << blackHole, windowOpen, wasReset >>

\* handleEvent whose R branch forgets rayCount = 0.
handleEventKeepsCount(st, event) ==
    IF ~st.open THEN st
    ELSE IF event = "Closed" \/ event = "Escape" THEN [st EXCEPT !.open = FALSE]
    ELSE IF event = "R" THEN [st EXCEPT !.rays = << >>, !.log = << >>,
                                        !.reset = @ \/ st.count > 0]
    ELSE st

\* handleEvent whose R branch forgets lightRays.clear().
handleEventKeepsRays(st, event) ==
    IF ~st.open THEN st
    ELSE IF event = "Closed" \/ event = "Escape" THEN [st EXCEPT !.open = FALSE]
    ELSE IF event = "R" THEN [st EXCEPT !.count = 0, !.log = << >>,
                                        !.reset = @ \/ st.count > 0]
    ELSE st

\* One pass of handleEvents' loop on st = [open, rays, count, log, reset].
handleEvent(st, event) ==
    IF ~st.open THEN st          \* pollEvent returns false on a closed window
    ELSE IF event = "Closed" \/ event = "Escape" THEN [st EXCEPT !.open = FALSE]
    ELSE IF event = "R" THEN [st EXCEPT !.rays = << >>, !.count = 0, !.log = << >>,
                                        !.reset = @ \/ st.count > 0]
    ELSE st

RECURSIVE pollAll(_, _)
pollAll(st, evs) ==
    IF evs = << >> THEN st ELSE pollAll(handleEvent(st, Head(evs)), Tail(evs))

EventSeqs == UNION { [1..n -> Events] : n \in 0..MaxEvents }

\* BlackHoleSimulation::handleEvents with evs the events pollEvent delivers
HandleEvents(evs) ==
    /\ pc = "handleEvents"
    /\ \E st \in { pollAll([open |-> windowOpen, rays |-> lightRays,
                             count |-> rayCount, log |-> spawned,
                             reset |-> wasReset], evs) } :
           /\ windowOpen' = st.open
           /\ lightRays' = st.rays
           /\ rayCount' = st.count
           /\ spawned' = st.log
           /\ wasReset' = st.reset
    /\ pc' = "update"
    /\ UNCHANGED << blackHole, raySpawnTimer, lastDeltaTime >>

\* run() with while (true) in place of while (window.isOpen()).
RenderLoopsOn ==
    /\ pc = "render"
    /\ pc' = "handleEvents"
    /\ lastDeltaTime' = F(0)
    /\ UNCHANGED << blackHole, lightRays, raySpawnTimer, rayCount, windowOpen, spawned,
                    wasReset >>

\* BlackHoleSimulation::render, and the loop test of run() that follows it
Render ==
    /\ pc = "render"
    /\ pc' = IF windowOpen THEN "handleEvents" ELSE "done"
    /\ lastDeltaTime' = F(0)
    /\ UNCHANGED << blackHole, lightRays, raySpawnTimer, rayCount, windowOpen, spawned,
                    wasReset >>

Poll == \E evs \in EventSeqs : HandleEvents(evs)

Tick == \E dt \in DeltaTimes : rayCount < MaxSpawn /\ Update(dt)

LagTick == \E dt \in LagDeltaTimes : rayCount < MaxLagSpawn /\ Update(dt)

\* run()
Next == Poll \/ Tick \/ Render

Spec == Init /\ [][Next]_vars

NextLag == Poll \/ LagTick \/ Render

SpecLag == Init /\ [][NextLag]_vars

-----------------------------------------------------------------------------
(* one ray under LightRay::update *)

\* The simulation right after spawnLightRay constructed its ray number n + 1.
InitRay(n) ==
    /\ blackHole = BlackHole(Vector2f(F(WINDOW_WIDTH \div 2), F(WINDOW_HEIGHT \div 2)),
                             F(50))
    /\ lightRays = << newLightRay(n) >>
    /\ raySpawnTimer = F(0)
    /\ rayCount = n + 1
    /\ windowOpen = TRUE
    /\ pc = "update"
    /\ spawned = << newLightRay(n) >>
    /\ wasReset = FALSE
    /\ lastDeltaTime = F(0)

\* ray.update(blackHole, deltaTime) on the one ray
UpdateRay(deltaTime) ==
    /\ lightRays' = << update(lightRays[1], blackHole, deltaTime) >>
    /\ UNCHANGED << blackHole, raySpawnTimer, rayCount, windowOpen, pc, spawned,
                    wasReset, lastDeltaTime >>

\* Frame times of the single ray: a 60 Hz frame, frames of about the spawn
\* interval, and stalled frames (3.2475 s carries the ray from x = -50 to 599.5,
\* 3.25 s to 600, 5.755 s to 1101).
RayDeltaTimes ==
    { asSeconds(us) : us \in { 16667, 200400, 300000, 3247500, 3250000, 5755000 } }

RayUpdate ==
    \E dt \in RayDeltaTimes :
        /\ ~isOffScreen(lightRays[1])
        /\ Len(lightRays[1].path) < MaxPath
        /\ UpdateRay(dt)

SpecRay == (\E n \in 0..14 : InitRay(n)) /\ [][RayUpdate]_vars

\* The ray of the direct-infall scenario, spawned at (-50, 400), updated at 60 Hz.
InfallUpdate == UpdateRay(FDiv(F(1), F(60)))

SpecInfall == InitRay(7) /\ [][InfallUpdate]_vars /\ WF_vars(InfallUpdate)

-----------------------------------------------------------------------------
(* properties *)

\* The rays of the collection, as a set of indices.
Rays == 1..Len(lightRays)

\* C1 (Spec): absorption is terminal and freezing. In every update() of the
\* simulation, a ray that is already absorbed is still in the collection afterwards
\* with its flag, position, velocity and path exactly as they were, and a ray that
\* is not absorbed and stands closer to the black hole than the Schwarzschild
\* radius comes out with the flag set and nothing else changed.
C1_AbsorptionIsTerminal ==
    [][pc = "update" =>
         \A i \in Rays :
            /\ lightRays[i].absorbed
                 => \E j \in 1..Len(lightRays') : lightRays'[j] = lightRays[i]
            /\ (/\ ~lightRays[i].absorbed
                /\ FLt(distance(lightRays[i], blackHole), blackHole.schwarzschildRadius))
                 => \E j \in 1..Len(lightRays') :
                       lightRays'[j] = [lightRays[i] EXCEPT !.absorbed = TRUE]]_vars

\* An absorbed ray after a 0.3 s frame that spawned: the timer was above 0 before
\* that frame, so the frame before it spawned nothing, and the absorbed ray, which
\* reached the black hole in the frame that spawned it, was absorbed in an earlier
\* frame and has been updated again since.
C1_Witness ==
    /\ pc = "render"
    /\ lastDeltaTime = asSeconds(300000)
    /\ raySpawnTimer = F(0)
    /\ \E i \in Rays : /\ lightRays[i].absorbed
                       /\ lightRays[i].currentPosition = blackHole.position
                       /\ Len(lightRays[i].path) = 2

\* C2 as amended (SpecLag): the 16th ray spawned since the counter was 0 starts at
\* the height of the 1st, and has the colour of the 2nd (15 mod 7 = 1), which is
\* not the colour of the 1st.
C2_SixteenthRay ==
    Len(spawned) >= 16 =>
        /\ spawned[16].path[1].y = spawned[1].path[1].y
        /\ spawned[16].path[1].x = spawned[1].path[1].x
        /\ spawned[16].color = spawned[2].color
        /\ spawned[16].color # spawned[1].color

\* Sixteen rays have been spawned in a row.
C2_Witness == Len(spawned) = 16 /\ rayCount = 16

\* C2 as claimed: the 16th ray spawned since the counter was 0 has the start height
\* and the colour of the 1st.
C2_SixteenthRayAsFirst ==
    Len(spawned) >= 16 =>
        /\ spawned[16].path[1].y = spawned[1].path[1].y
        /\ spawned[16].color = spawned[1].color

\* The first ray of a fresh simulation.
FirstRay ==
    [path            |-> << Vector2f(F(-50), F(50)) >>,
     currentPosition |-> Vector2f(F(-50), F(50)),
     currentVelocity |-> Vector2f(F(200), F(0)),
     color           |-> "Red",
     impactParameter |-> F(350),
     absorbed        |-> FALSE]

\* An R key press among evs that handleEvents gets to handle: no event before it
\* closed the window.
ResetHandled(evs) ==
    \E i \in 1..Len(evs) :
        /\ evs[i] = "R"
        /\ \A k \in 1..(i - 1) : evs[k] \notin { "Closed", "Escape" }

\* C3 (Spec): a handleEvents that handles an R key press leaves no ray and the
\* counter at 0, and the black hole and the spawn timer as they were; and the next
\* ray spawned after a reset is the first ray of a fresh simulation.
C3_ResetRestartsSpawning ==
    [][/\ \A evs \in EventSeqs :
            (HandleEvents(evs) /\ ResetHandled(evs))
              => /\ lightRays' = << >>
                 /\ rayCount' = 0
                 /\ blackHole' = blackHole
                 /\ raySpawnTimer' = raySpawnTimer
       /\ (wasReset /\ rayCount = 0 /\ rayCount' = 1) => spawned' = << FirstRay >>]_vars

\* After a reset that followed earlier spawns, the first ray has been spawned
\* again.
C3_Witness ==
    /\ wasReset
    /\ rayCount = 1
    /\ spawned = << FirstRay >>
    /\ pc = "render"

\* |speed - 200| a ray's speed may be off by rounding.
SpeedTolerance == FDiv(F(1), F(16))

\* C4 as claimed (SpecRay), read with a rounding tolerance: every ray that is not
\* absorbed moves at the speed of light, 200.
C4_SpeedIsLightSpeed ==
    \A i \in Rays :
        ~lightRays[i].absorbed
          => ~FGt(FAbs(FSub(magnitude(lightRays[i].currentVelocity), lightSpeed)),
                  SpeedTolerance)

\* C5 (SpecInfall): the ray spawned at (-50, 400), updated with deltaTime 1/60, is
\* strictly closer to the black hole after every update that leaves it not
\* absorbed, is absorbed in the end, and stays absorbed.
C5_DirectInfall ==
    /\ [][~lightRays'[1].absorbed
            => FLt(distance(lightRays'[1], blackHole), distance(lightRays[1], blackHole))]_vars
    /\ [][lightRays[1].absorbed => lightRays'[1].absorbed]_vars
    /\ <>[](lightRays[1].absorbed)

\* The ray has fallen in from (-50, 400) and is absorbed within the capture radius
\* 0.5 of the black hole at (600, 400).
C5_Witness ==
    /\ lightRays[1].absorbed
    /\ lightRays[1].path[1] = Vector2f(F(-50), F(400))
    /\ Len(lightRays[1].path) > 100
    /\ blackHole.schwarzschildRadius = FDiv(F(1), F(2))
    /\ FLt(distance(lightRays[1], blackHole), blackHole.schwarzschildRadius)

\* C6 (SpecRay): a ray that started at the black hole's height has impact
\* parameter 0, and whenever its update gets past the capture check, distance *
\* distance is positive, distance * impactParameter + 1 is 1, and the acceleration
\* is finite.
C6_ZeroImpactDivisors ==
    \A i \in Rays :
        lightRays[i].path[1].y = blackHole.position.y
          => /\ lightRays[i].impactParameter = F(0)
             /\ (/\ ~lightRays[i].absorbed
                 /\ ~FLt(distance(lightRays[i], blackHole), blackHole.schwarzschildRadius))
                  => /\ FGt(distanceSquared(lightRays[i], blackHole), F(0))
                     /\ deflectionDivisor(lightRays[i], blackHole) = F(1)
                     /\ IsFinite(acceleration(lightRays[i], blackHole).x)
                     /\ IsFinite(acceleration(lightRays[i], blackHole).y)

\* The on-axis ray has moved to within a pixel of the black hole, not inside the
\* capture radius, and is about to be updated.
C6_Witness ==
    /\ lightRays[1].path[1].y = blackHole.position.y
    /\ Len(lightRays[1].path) >= 2
    /\ ~lightRays[1].absorbed
    /\ ~FLt(distance(lightRays[1], blackHole), blackHole.schwarzschildRadius)
    /\ FLt(distance(lightRays[1], blackHole), F(1))

\* The spawn interval, 0.3f.
SpawnInterval == FDiv(F(3), F(10))

\* C7 (Spec): update(deltaTime) spawns when, and only when, the timer plus
\* deltaTime is strictly above 0.3; it then spawns one ray and leaves the timer at
\* 0; otherwise it spawns none and leaves the timer at the sum.
C7_SpawnCadence ==
    [][pc = "update" =>
         IF FGt(FAdd(raySpawnTimer, lastDeltaTime'), SpawnInterval)
         THEN /\ rayCount' = rayCount + 1
              /\ Len(spawned') = Len(spawned) + 1
              /\ Len(lightRays') <= Len(lightRays) + 1
              /\ raySpawnTimer' = F(0)
         ELSE /\ rayCount' = rayCount
              /\ spawned' = spawned
              /\ Len(lightRays') <= Len(lightRays)
              /\ raySpawnTimer' = FAdd(raySpawnTimer, lastDeltaTime')]_vars

\* After earlier spawns, a frame left the timer at exactly 0.3 and spawned nothing.
C7_Witness ==
    /\ pc = "render"
    /\ raySpawnTimer = SpawnInterval
    /\ rayCount >= 2
    /\ Len(spawned) = rayCount

\* C8 (Spec): the collection never holds more rays than rayCount.
C8_RaysAtMostSpawnCount == Len(lightRays) <= rayCount

\* After a reset that followed earlier spawns, rays were spawned again and some of
\* them culled.
C8_Witness ==
    /\ wasReset
    /\ Len(lightRays) > 0
    /\ Len(lightRays) < rayCount

\* Closed or Escape is among evs.
ExitRequested(evs) == \E i \in 1..Len(evs) : evs[i] \in { "Closed", "Escape" }

\* C9 (Spec): a handleEvents that sees Closed or Escape closes the window and goes
\* on to update; with the window closed update goes on to render and render ends
\* the loop; nothing runs after the loop ended.
C9_ExitAfterFrame ==
    [][/\ \A evs \in EventSeqs :
            (HandleEvents(evs) /\ ExitRequested(evs)) => (~windowOpen' /\ pc' = "update")
       /\ (pc = "update" /\ ~windowOpen) => (pc' = "render" /\ ~windowOpen')
       /\ (pc = "render" /\ ~windowOpen) => (pc' = "done" /\ ~windowOpen')
       /\ pc # "done"]_vars

\* The loop has ended with rays still in flight.
C9_Witness == pc = "done" /\ ~windowOpen /\ lightRays # << >>

\* Not absorbed, and outside the window widened by 100 on every side.
OffBounds(ray) ==
    /\ ~ray.absorbed
    /\ \/ FGt(ray.currentPosition.x, F(1300))
       \/ FLt(ray.currentPosition.x, F(-100))
       \/ FGt(ray.currentPosition.y, F(900))
       \/ FLt(ray.currentPosition.y, F(-100))

\* The rays of an update() step after their updates, before the cull.
UpdatedRays ==
    updateAll(IF Len(spawned') > Len(spawned)
              THEN Append(lightRays, spawned'[Len(spawned')])
              ELSE lightRays, lastDeltaTime')

\* C10 (Spec): update() leaves, in their order, exactly the updated rays that are
\* absorbed or inside the widened window; so no ray left is off bounds and every
\* absorbed ray is still there.
C10_CullExactlyOffBounds ==
    [][pc = "update" =>
         \A updated \in { UpdatedRays } :
            /\ lightRays' = SelectSeq(updated, LAMBDA r : ~OffBounds(r))
            /\ \A j \in 1..Len(lightRays') : ~OffBounds(lightRays'[j])
            /\ \A i \in 1..Len(updated) :
                  updated[i].absorbed
                    => \E j \in 1..Len(lightRays') : lightRays'[j] = updated[i]]_vars

\* Rays have been culled since the counter was 0, and at least two are left, one of
\* them absorbed.
C10_Witness ==
    /\ pc = "render"
    /\ Len(lightRays) < rayCount
    /\ Len(lightRays) >= 2
    /\ \E i \in Rays : lightRays[i].absorbed

=============================================================================
